---- MODULE Spec2Model ----
(***************************************************************************)
(* Model of the slider value synchronizer of                               *)
(* webapp/src/components/Slider.vue: one reactive field (rawSliderValue),  *)
(* the derived snappedValue and sliderValPercent, the two watchers and the *)
(* two input handlers, run by Vue's job queue against a v-model owner      *)
(* (Spec) or an owner that stores emitted values later (SpecAsync).        *)
(* Beside it: the sensor connection of Options.vue (SpecSensor), the ring  *)
(* animation of ThinkingIcon (SpecIcon) and the selection handlers of      *)
(* ModelSelect (SpecSelect).                                               *)
(*                                                                         *)
(* JavaScript Numbers are modelled as exact decimal fixed-point values:    *)
(* the integer n stands for n / Scale.  NaN and the infinities are kept as *)
(* separate values; binary floating-point rounding noise is not modelled.  *)
(***************************************************************************)
EXTENDS Integers, Sequences, FiniteSets, TLC

\* Number of decimal digits the fixed-point representation keeps.
MaxDecimals == 2
\* Continuous positions offered by the input surface: 0.0, 0.1, ... MaxTenths/10.
MaxTenths == 12
\* Emitted values an asynchronous owner may have pending.
MaxInflight == 2
\* EventSources constructed in one run.
MaxSources == 3
\* Animation-frame callbacks that may be pending at once.
MaxPending == 3
\* Emit calls and isOpen assignments recorded in one run.
MaxEffects == 6

Scale == 10 ^ MaxDecimals

\* The decimal literal n / 10^d (d <= MaxDecimals), e.g. D(55, 1) is 5.5.
D(n, d) == (n * Scale) \div (10 ^ d)

----------------------------------------------------------------------------
(* JavaScript values *)

Num(n)    == [kind |-> "number", val |-> n]
NaN       == [kind |-> "NaN", val |-> 0]
PosInf    == [kind |-> "Infinity", val |-> 1]
NegInf    == [kind |-> "Infinity", val |-> -1]
Null      == [kind |-> "null", val |-> 0]
Undefined == [kind |-> "undefined", val |-> 0]

IsNum(a) == a.kind = "number"

\* a ?? b
Nullish(a, b) == IF a.kind \in {"null", "undefined"} THEN b ELSE a

\* a === b on numbers and null: NaN is not equal to anything, itself included.
StrictEq(a, b) == a.kind # "NaN" /\ b.kind # "NaN" /\ a = b

\* Vue's hasChanged(a, b) is !Object.is(a, b): NaN is the same value as NaN.
hasChanged(a, b) == a # b

\* Number.isFinite(a)
NumberIsFinite(a) == a.kind = "number"

\* a < b on numbers and infinities (never called with NaN).
Less(a, b) ==
    CASE a.kind = "number" /\ b.kind = "number" -> a.val < b.val
      [] a.kind = "Infinity" /\ b.kind = "number" -> a.val < 0
      [] a.kind = "number" /\ b.kind = "Infinity" -> b.val > 0
      [] OTHER -> a.val < b.val

\* Math.max / Math.min: NaN if either argument is NaN.
MathMax(a, b) ==
    IF a.kind = "NaN" \/ b.kind = "NaN" THEN NaN
    ELSE IF Less(a, b) THEN b ELSE a

MathMin(a, b) ==
    IF a.kind = "NaN" \/ b.kind = "NaN" THEN NaN
    ELSE IF Less(b, a) THEN b ELSE a

\* Truncation towards -Infinity instead of rounding to the nearest integer.
MathRoundDown(n, d) ==
    IF d > 0 THEN n \div d ELSE (-n) \div (-d)

\* Math.round(n / d) for integers n, d with d # 0: the nearest integer,
\* ties towards +Infinity, i.e. floor(n/d + 1/2).
MathRound(n, d) ==
    IF d > 0 THEN (2 * n + d) \div (2 * d)
    ELSE ((-2) * n - d) \div ((-2) * d)

----------------------------------------------------------------------------
(* Props and their defaults *)

DefaultMin        == 0
DefaultMax        == 100
DefaultStep       == 1
DefaultModelValue == 1

\* Vue resolves a prop passed as undefined to its default; null is passed on.
ResolveModelValue(v) ==
    IF v.kind = "undefined" THEN Num(D(DefaultModelValue, 0)) ELSE v

----------------------------------------------------------------------------
(* The derived values, as functions of the props and the raw position *)

\* props.step || 1
StepOrOne(step) == IF step = 0 THEN D(1, 0) ELSE step

\* Number of digits after the "." in String(step): the least d for which
\* step * 10^d is whole.  (Steps small enough for exponent notation are
\* below the represented precision.)
stepDecimals(step) ==
    LET s == StepOrOne(step)
    IN  CHOOSE d \in 0..MaxDecimals :
            /\ (s * 10 ^ d) % Scale = 0
            /\ \A e \in 0..(d - 1) : (s * 10 ^ e) % Scale # 0

\* roundToStepPrecision that returns its argument as it is.
roundToStepPrecisionNone(value, step) == value

\* Math.round(value * factor) / factor
roundToStepPrecision(value, step) ==
    LET factor == 10 ^ stepDecimals(step)
    IN  IF value.kind = "NaN" THEN NaN
        ELSE Num(MathRound(value.val * factor, Scale) * (Scale \div factor))

\* snappedValue without the re-clamp of the snapped value.
snappedValueOfNoReclamp(min, max, step, rawValue) ==
    LET s          == StepOrOne(step)
        raw        == Nullish(rawValue, Num(min))
        clampedRaw == MathMin(Num(max), MathMax(Num(min), raw))
    IN  IF clampedRaw.kind = "NaN" THEN NaN
        ELSE LET stepsFromMin == MathRound(clampedRaw.val - min, s)
                 snapped      == Num(min + stepsFromMin * s)
             IN  roundToStepPrecision(snapped, step)

snappedValueOf(min, max, step, rawValue) ==
    LET s          == StepOrOne(step)
        raw        == Nullish(rawValue, Num(min))
        clampedRaw == MathMin(Num(max), MathMax(Num(min), raw))
    IN  IF clampedRaw.kind = "NaN" THEN NaN   \* NaN runs through every step
        ELSE LET stepsFromMin   == MathRound(clampedRaw.val - min, s)
                 snapped        == Num(min + stepsFromMin * s)
                 clampedSnapped == MathMin(Num(max), MathMax(Num(min), snapped))
             IN  roundToStepPrecision(clampedSnapped, step)

\* sliderValPercent without the clamp of the raw position.
sliderValPercentOfUnclamped(min, max, rawValue) ==
    LET range == max - min
        raw   == Nullish(rawValue, Num(min))
    IN  IF range = 0 THEN [kind |-> "number", num |-> 0, den |-> 1]
        ELSE IF raw.kind # "number"
             THEN [kind |-> "NaN", num |-> 0, den |-> 1]
             ELSE [kind |-> "number",
                   num  |-> (raw.val - min) * 100,
                   den  |-> range]

\* sliderValPercent as the exact fraction num / den.
sliderValPercentOf(min, max, rawValue) ==
    LET range == max - min
    IN  IF range = 0 THEN [kind |-> "number", num |-> 0, den |-> 1]
        ELSE LET raw     == Nullish(rawValue, Num(min))
                 clamped == MathMin(Num(max), MathMax(Num(min), raw))
             IN  IF clamped.kind = "NaN"
                 THEN [kind |-> "NaN", num |-> 0, den |-> 1]
                 ELSE [kind |-> "number",
                       num  |-> (clamped.val - min) * 100,
                       den  |-> range]

\* Number(event.target.value) for the texts an input element can report.
ToNumber(text) ==
    CASE text.kind = "numeric"   -> Num(text.val)
      [] text.kind = "empty"     -> Num(0)
      [] text.kind = "Infinity"  -> PosInf
      [] text.kind = "-Infinity" -> NegInf
      [] OTHER                   -> NaN

----------------------------------------------------------------------------
(* Bounded inputs *)

Range(min, max, step) == [min |-> min, max |-> max, step |-> step]

Ranges ==
    { Range(D(DefaultMin, 0), D(DefaultMax, 0), D(DefaultStep, 0)),
      Range(0, D(10, 0), D(1, 0)),
      Range(0, D(1, 0), D(25, 2)),
      Range(0, D(10, 0), D(4, 0)),
      Range(0, D(3, 0), D(1, 1)),
      Range(D(5, 2), D(1, 0), D(1, 1)),
      Range(D(4, 2), D(1, 0), D(1, 1)),
      Range(0, D(105, 2), D(1, 1)),
      Range(D(5, 0), D(5, 0), D(1, 0)),
      Range(D(55, 1), D(55, 1), D(1, 0)),
      Range(D(10, 0), D(20, 0), D(1, 0)),
      Range(0, D(3, 0), D(5, 0)),
      Range(0, D(2, 0), D(5, 0)),
      Range(0, D(10, 0), 0),
      Range(0, D(10, 0), D(-2, 0)) }

Positions ==
    { D(k, 1) : k \in 0..MaxTenths }
        \cup { D(-5, 0), D(36, 1), D(55, 1), D(10, 0), D(15, 0), D(100, 0),
               D(168, 2), D(174, 2) }

Texts ==
    { [kind |-> "numeric", val |-> x] : x \in Positions }
        \cup { [kind |-> k, val |-> 0] :
                   k \in {"empty", "Infinity", "-Infinity", "garbage"} }

\* Values the owner binds to v-model, at construction or later.
OwnerValues ==
    { Undefined, Null } \cup
    { Num(x) : x \in { 0, D(3, 1), D(1, 0), D(36, 1), D(10, 0), D(15, 0) } }

----------------------------------------------------------------------------
(* The component instance, its owner and Vue's job queue *)

VARIABLES
    props,           \* min, max, step, modelValue as the component sees them
    rawSliderValue,  \* ref: the thumb position
    snappedOld,      \* the value watch(snappedValue) saw last
    ownerValue,      \* the state the owner binds with v-model
    queue,           \* pending jobs: "render" (owner re-render), "snapped"
    lastEmitted,     \* payload of the last update:modelValue, or NoEmit
    emitCount,       \* emissions since the last input or owner event
    lastOp,          \* the handler that ran last, its argument, whether it emitted
    inflight,        \* emitted values an asynchronous owner has not stored yet
    sensor,          \* Options: enableSensor, eventSource, the EventSources made
    icon,            \* ThinkingIcon: props, refs, rafId, pending frame callbacks
    select           \* ModelSelect: isOpen, props.modelValue, effects of a handler

vars == <<props, rawSliderValue, snappedOld, ownerValue, queue,
          lastEmitted, emitCount, lastOp, inflight, sensor, icon, select>>

\* The state of the other components, which the slider never touches.
others == <<sensor, icon, select>>

NoEmit == [kind |-> "none", val |-> 0]

Op(name, arg, emitted) == [name |-> name, arg |-> arg, emitted |-> emitted]

snappedValue ==
    snappedValueOf(props.min, props.max, props.step, rawSliderValue)

sliderValPercent ==
    sliderValPercentOf(props.min, props.max, rawSliderValue)

\* Writing a ref triggers its dependents only when the value changed; the
\* watcher of snappedValue is then queued (once).
SetRaw(value) ==
    /\ rawSliderValue' = value
    /\ queue' = IF hasChanged(value, rawSliderValue)
                THEN queue \cup {"snapped"} ELSE queue

----------------------------------------------------------------------------
(* The other components right after setup() *)

\* Options.vue setup(): no EventSource yet.  made[i] is the readyState of
\* the i-th EventSource constructed; eventSource is its index, 0 for none.
SensorSetup ==
    [enableSensor |-> FALSE, eventSource |-> 0, made |-> <<>>,
     connectionStatus |-> "null", messages |-> 0]

DefaultSize == 64

\* requestAnimationFrame: a handle that no pending callback has and that
\* rafId does not hold.
FreshHandle(ic) ==
    CHOOSE h \in 1..(Cardinality(ic.frames) + 2) :
        /\ h # ic.rafId
        /\ \A f \in ic.frames : f.handle # h

\* speed.value = 0.08 * (64 / props.size), in units of 1/Scale per ms.
SpeedOf(size) == (8 * Scale * 64) \div (100 * size)

\* The callback of watch(() => props.active, ...) without the
\* cancelAnimationFrame of the else branch.
ActiveChangedNoCancel(ic, on) ==
    IF on
    THEN LET h == FreshHandle(ic)
         IN  [ic EXCEPT !.speed = SpeedOf(ic.size),
                        !.rafId = h,
                        !.frames = @ \cup {[handle |-> h, first |-> TRUE]},
                        !.last = "activated"]
    ELSE [ic EXCEPT !.rafId = 0,
                    !.dashOffset = 0,
                    !.last = "deactivated"]

\* The callback of watch(() => props.active, ...), applied to the record ic.
ActiveChanged(ic, on) ==
    IF on
    THEN LET h == FreshHandle(ic)
         IN  [ic EXCEPT !.speed = SpeedOf(ic.size),
                        !.rafId = h,
                        !.frames = @ \cup {[handle |-> h, first |-> TRUE]},
                        !.last = "activated"]
    ELSE [ic EXCEPT !.frames = { f \in @ : f.handle # ic.rafId },
                    !.rafId = 0,
                    !.dashOffset = 0,
                    !.last = "deactivated"]

\* ThinkingIcon setup(): the watcher of props.active is immediate.
IconSetup(size, active) ==
    ActiveChanged([size |-> size, active |-> active, activeOld |-> active,
                   job |-> FALSE, rafId |-> 0, frames |-> {},
                   dashOffset |-> 0, speed |-> 0, mounted |-> TRUE,
                   last |-> "setup"],
                  active)

\* ModelSelect setup(): closed, nothing emitted.  log lists, in order, the
\* emit calls and the assignments to isOpen made by the handlers; via and
\* model are the trigger and the argument of the handler that ran last.
SelectSetup(modelValue) ==
    [isOpen |-> FALSE, modelValue |-> modelValue, log |-> <<>>,
     via |-> "setup", model |-> ""]

----------------------------------------------------------------------------
(* The slider *)

\* setup(): rawSliderValue = ref(props.modelValue ?? props.min); both
\* watchers are created lazily, so nothing runs and nothing is emitted.
SliderSetup ==
    /\ ownerValue \in OwnerValues
    /\ \E r \in Ranges :
           props = [min |-> r.min, max |-> r.max, step |-> r.step,
                    modelValue |-> ResolveModelValue(ownerValue)]
    /\ rawSliderValue = Nullish(props.modelValue, Num(props.min))
    /\ snappedOld = snappedValue
    /\ queue = {}
    /\ lastEmitted = NoEmit
    /\ emitCount = 0
    /\ lastOp = Op("setup", ownerValue, FALSE)
    /\ inflight = <<>>

Init ==
    /\ SliderSetup
    /\ sensor = SensorSetup
    /\ icon = IconSetup(DefaultSize, FALSE)
    /\ select = SelectSetup("")

\* One slider, with every prop left at its default, next to the component
\* under study.
SliderParked ==
    /\ SliderSetup
    /\ ownerValue = Undefined
    /\ Range(props.min, props.max, props.step)
           = Range(D(DefaultMin, 0), D(DefaultMax, 0), D(DefaultStep, 0))

\* DOM events and owner changes are tasks: they start when the job queue of
\* the previous task has been flushed.
Idle == queue = {}

\* A task that may emit starts only while the owner's inbox has room.
Ready == Idle /\ Len(inflight) < MaxInflight

onRangeInput(text) ==
    /\ Ready
    /\ SetRaw(ToNumber(text))
    /\ emitCount' = 0
    /\ lastOp' = Op("onRangeInput", text, FALSE)
    /\ UNCHANGED <<props, snappedOld, ownerValue, lastEmitted>>
    /\ UNCHANGED <<inflight, others>>

onNumberInput(text) ==
    /\ Ready
    /\ LET value == ToNumber(text)
       IN  IF NumberIsFinite(value)
           THEN SetRaw(value)
           ELSE UNCHANGED <<rawSliderValue, queue>>
    /\ emitCount' = 0
    /\ lastOp' = Op("onNumberInput", text, FALSE)
    /\ UNCHANGED <<props, snappedOld, ownerValue, lastEmitted>>
    /\ UNCHANGED <<inflight, others>>

\* The owner assigns its bound state on its own; its re-render is queued.
OwnerSet(w) ==
    /\ Ready
    /\ hasChanged(w, ownerValue)
    /\ ownerValue' = w
    /\ queue' = {"render"}
    /\ emitCount' = 0
    /\ lastOp' = Op("OwnerSet", w, FALSE)
    /\ UNCHANGED <<props, rawSliderValue, snappedOld, lastEmitted>>
    /\ UNCHANGED <<inflight, others>>

\* watchModelValue without the "only update if we're out of sync" test.
watchModelValueUnguarded ==
    /\ "render" \in queue
    /\ LET value == ResolveModelValue(ownerValue)
           next  == Nullish(value, Num(props.min))
       IN  /\ props' = [props EXCEPT !.modelValue = value]
           /\ IF hasChanged(value, props.modelValue)
              THEN /\ rawSliderValue' = next
                   /\ queue' = IF hasChanged(next, rawSliderValue)
                               THEN (queue \ {"render"}) \cup {"snapped"}
                               ELSE queue \ {"render"}
              ELSE /\ rawSliderValue' = rawSliderValue
                   /\ queue' = queue \ {"render"}
    /\ lastOp' = Op("watchModelValue", ownerValue, FALSE)
    /\ UNCHANGED <<snappedOld, ownerValue, lastEmitted, emitCount>>
    /\ UNCHANGED <<inflight, others>>

\* The owner's re-render passes its state down as props.modelValue; the
\* watcher of props.modelValue runs when the prop changed.
watchModelValue ==
    /\ "render" \in queue
    /\ LET value == ResolveModelValue(ownerValue)
           next  == Nullish(value, Num(props.min))
       IN  /\ props' = [props EXCEPT !.modelValue = value]
           /\ IF hasChanged(value, props.modelValue)
                  /\ ~StrictEq(next, snappedValue)
              THEN /\ rawSliderValue' = next
                   /\ queue' = IF hasChanged(next, rawSliderValue)
                               THEN (queue \ {"render"}) \cup {"snapped"}
                               ELSE queue \ {"render"}
              ELSE /\ rawSliderValue' = rawSliderValue
                   /\ queue' = queue \ {"render"}
    /\ lastOp' = Op("watchModelValue", ownerValue, FALSE)
    /\ UNCHANGED <<snappedOld, ownerValue, lastEmitted, emitCount>>
    /\ UNCHANGED <<inflight, others>>

\* The job of watch(snappedValue): the callback runs when the value differs
\* from the one seen last; emit calls the owner's v-model handler, which
\* stores the payload and queues the owner's re-render.
watchSnappedValue ==
    /\ "snapped" \in queue
    /\ LET value == snappedValue
       IN  /\ snappedOld' = value
           /\ IF hasChanged(value, snappedOld)
              THEN /\ lastEmitted' = value
                   /\ emitCount' = emitCount + 1
                   /\ ownerValue' = value
                   /\ queue' = IF hasChanged(value, ownerValue)
                               THEN (queue \ {"snapped"}) \cup {"render"}
                               ELSE queue \ {"snapped"}
                   /\ lastOp' = Op("watchSnappedValue", value, TRUE)
              ELSE /\ queue' = queue \ {"snapped"}
                   /\ lastOp' = Op("watchSnappedValue", value, FALSE)
                   /\ UNCHANGED <<lastEmitted, emitCount, ownerValue>>
    /\ UNCHANGED <<props, rawSliderValue>>
    /\ UNCHANGED <<inflight, others>>

\* watch(snappedValue) under an owner that stores the payload later: emit
\* only hands the value over.
watchSnappedValueAsync ==
    /\ "snapped" \in queue
    /\ LET value == snappedValue
       IN  /\ snappedOld' = value
           /\ queue' = queue \ {"snapped"}
           /\ IF hasChanged(value, snappedOld)
              THEN /\ lastEmitted' = value
                   /\ emitCount' = emitCount + 1
                   /\ inflight' = Append(inflight, value)
                   /\ lastOp' = Op("watchSnappedValue", value, TRUE)
              ELSE /\ lastOp' = Op("watchSnappedValue", value, FALSE)
                   /\ UNCHANGED <<lastEmitted, emitCount, inflight>>
    /\ UNCHANGED <<props, rawSliderValue, ownerValue, others>>

\* The asynchronous owner stores the oldest pending payload and re-renders.
OwnerDeliver ==
    /\ Idle
    /\ inflight # <<>>
    /\ ownerValue' = Head(inflight)
    /\ inflight' = Tail(inflight)
    /\ queue' = IF hasChanged(Head(inflight), ownerValue)
                THEN {"render"} ELSE {}
    /\ emitCount' = 0
    /\ lastOp' = Op("OwnerDeliver", Head(inflight), FALSE)
    /\ UNCHANGED <<props, rawSliderValue, snappedOld, lastEmitted, others>>

Next ==
    \/ \E text \in Texts : onRangeInput(text)
    \/ \E text \in Texts : onNumberInput(text)
    \/ \E w \in OwnerValues : OwnerSet(w)
    \/ watchModelValue
    \/ watchSnappedValue

Spec == Init /\ [][Next]_vars

NextAsync ==
    \/ \E text \in Texts : onRangeInput(text)
    \/ \E text \in Texts : onNumberInput(text)
    \/ \E w \in OwnerValues : OwnerSet(w)
    \/ OwnerDeliver
    \/ watchModelValue
    \/ watchSnappedValueAsync

\* The slider under an owner that applies update:modelValue asynchronously.
SpecAsync == Init /\ [][NextAsync]_vars

TypeOK ==
    /\ queue \subseteq {"render", "snapped"}
    /\ emitCount \in 0..1

----------------------------------------------------------------------------
(* Options: the sensor connection *)

\* messages is cut back to this length.
MessageLimit == 100

\* The slider's variables, which the other components never touch.
sliderVars == <<props, rawSliderValue, snappedOld, ownerValue, queue,
                lastEmitted, emitCount, lastOp, inflight>>

\* if (eventSource) { eventSource.close(); eventSource = null; ... }
closeConnection(sn) ==
    IF sn.eventSource # 0
    THEN [sn EXCEPT !.made[sn.eventSource] = "CLOSED",
                    !.eventSource = 0,
                    !.connectionStatus = ""]
    ELSE sn

\* eventSource = new EventSource(props.sensorUri), handlers attached.
initEventSource(sn) ==
    [sn EXCEPT !.made = Append(@, "CONNECTING"),
               !.eventSource = Len(sn.made) + 1]

\* The click handler of the Enable Sensor checkbox.
handleSensor ==
    /\ sensor.enableSensor \/ Len(sensor.made) < MaxSources
    /\ sensor' = IF sensor.enableSensor
                 THEN closeConnection(sensor)
                 ELSE initEventSource(sensor)
    /\ UNCHANGED <<sliderVars, icon, select>>

\* The i-th EventSource connects: its onopen handler runs.
onopen(i) ==
    /\ sensor.made[i] = "CONNECTING"
    /\ sensor' = [sensor EXCEPT !.made[i] = "OPEN",
                                !.connectionStatus = "Connected"]
    /\ UNCHANGED <<sliderVars, icon, select>>

\* The i-th EventSource receives a message: sensor-data is emitted and the
\* message is put in front of messages, which keeps at most MessageLimit.
onmessage(i) ==
    /\ sensor.made[i] = "OPEN"
    /\ sensor' = [sensor EXCEPT !.messages =
                      IF @ + 1 > MessageLimit THEN @ ELSE @ + 1]
    /\ UNCHANGED <<sliderVars, icon, select>>

\* The i-th EventSource loses its connection and retries (fatal = FALSE) or
\* gives up (fatal = TRUE); its onerror handler looks at the readyState of
\* the EventSource that the variable eventSource holds.
onerror(i, fatal) ==
    /\ sensor.made[i] # "CLOSED"
    /\ sensor.eventSource # 0
    /\ LET made == [sensor.made EXCEPT
                        ![i] = IF fatal THEN "CLOSED" ELSE "CONNECTING"]
       IN  sensor' = [sensor EXCEPT
                          !.made = made,
                          !.connectionStatus =
                              IF made[sensor.eventSource] = "CLOSED"
                              THEN "" ELSE "Error"]
    /\ UNCHANGED <<sliderVars, icon, select>>

InitSensor ==
    /\ SliderParked
    /\ sensor = SensorSetup
    /\ icon = IconSetup(DefaultSize, FALSE)
    /\ select = SelectSetup("")

NextSensor ==
    \/ handleSensor
    \/ \E i \in 1..Len(sensor.made) : onopen(i)
    \/ \E i \in 1..Len(sensor.made) : onmessage(i)
    \/ \E i \in 1..Len(sensor.made), fatal \in BOOLEAN : onerror(i, fatal)

SpecSensor == InitSensor /\ [][NextSensor]_vars

----------------------------------------------------------------------------
(* ThinkingIcon: the ring animation *)

\* dashOffset wraps at this value.
DashPeriod == 120
\* The largest time step of one frame, in ms.
MaxDt == 32

Sizes == {64, 16, 4}

\* Milliseconds between two animation frames.
FrameGaps == {0, 16, 40}

IconMin(a, b) == IF a < b THEN a ELSE b

\* The owner changes props.active; the watcher's job is queued and runs
\* before the next animation frame.
setActive(on) ==
    /\ icon.mounted
    /\ on # icon.active
    /\ Cardinality(icon.frames) < MaxPending
    /\ icon' = [icon EXCEPT !.active = on, !.job = TRUE, !.last = "setActive"]
    /\ UNCHANGED <<sliderVars, sensor, select>>

\* The job of the watcher of props.active: its callback runs when the
\* value differs from the one it saw last.
watchActive ==
    /\ icon.job
    /\ icon' = IF icon.active # icon.activeOld
               THEN ActiveChanged([icon EXCEPT !.job = FALSE,
                                               !.activeOld = icon.active],
                                  icon.active)
               ELSE [icon EXCEPT !.job = FALSE, !.last = "unchanged"]
    /\ UNCHANGED <<sliderVars, sensor, select>>

\* The browser runs the pending callback f, gap ms after the frame before:
\* animateRing(tsNow, tsPrev), tsPrev being absent on the first frame.
animateRing(f, gap) ==
    /\ f \in icon.frames
    /\ ~icon.job
    /\ LET taken == [icon EXCEPT !.frames = @ \ {f}, !.last = "frame"]
           dt    == IF f.first THEN 0 ELSE IconMin(MaxDt, gap)
           h     == FreshHandle(taken)
       IN  icon' =
               IF ~icon.active THEN taken
               ELSE [taken EXCEPT
                        !.dashOffset =
                            (@ + icon.speed * dt) % (DashPeriod * Scale),
                        !.rafId = h,
                        !.frames = @ \cup {[handle |-> h, first |-> FALSE]}]
    /\ UNCHANGED <<sliderVars, sensor, select>>

\* onUnmounted; the watcher is stopped with the component.
unmount ==
    /\ icon.mounted
    /\ ~icon.job
    /\ icon' = [icon EXCEPT !.frames = { f \in @ : f.handle # icon.rafId },
                            !.rafId = 0,
                            !.mounted = FALSE,
                            !.last = "unmounted"]
    /\ UNCHANGED <<sliderVars, sensor, select>>

InitIcon ==
    /\ SliderParked
    /\ sensor = SensorSetup
    /\ \E size \in Sizes, active \in BOOLEAN : icon = IconSetup(size, active)
    /\ select = SelectSetup("")

NextIcon ==
    \/ \E on \in BOOLEAN : setActive(on)
    \/ watchActive
    \/ \E f \in icon.frames, gap \in FrameGaps : animateRing(f, gap)
    \/ unmount

SpecIcon == InitIcon /\ [][NextIcon]_vars

----------------------------------------------------------------------------
(* ModelSelect: choosing a model *)

\* model.model of the entries of props.modelList.
ModelIds == {"gpt", "llama", "mistral"}

Keys == {"Enter", " ", "Escape", "Tab", "ArrowDown"}

\* An entry of the log: an emit call with its payload (the value itself, or
\* the target.value and srcElement.value of an event object) or an
\* assignment to isOpen; "-" fills the fields an entry does not have.
Effect(effect, name, value, targetValue, srcElementValue) ==
    [effect |-> effect, name |-> name, value |-> value,
     targetValue |-> targetValue, srcElementValue |-> srcElementValue]

\* emit("update:modelValue", id)
EmitUpdate(id) == Effect("emit", "update:modelValue", id, "-", "-")

\* emit("change", {target: {value: t}, srcElement: {value: e}})
EmitChange(t, e) == Effect("emit", "change", "-", t, e)

\* isOpen.value = false
CloseMenu == Effect("set", "isOpen", "false", "-", "-")

\* selectModel that closes the menu before it emits.
selectModelCloseFirst(sel, model) ==
    [sel EXCEPT !.log = @ \o << CloseMenu,
                                EmitUpdate(model),
                                EmitChange(model, model) >>,
                !.isOpen = FALSE,
                !.modelValue = model]

\* selectModel(model), applied to the record sel; the owner's v-model
\* stores the payload of update:modelValue.
selectModel(sel, model) ==
    [sel EXCEPT !.log = @ \o << EmitUpdate(model),
                                EmitChange(model, model),
                                CloseMenu >>,
                !.isOpen = FALSE,
                !.modelValue = model]

\* A click on the item of model.
clickItem(model) ==
    /\ Len(select.log) + 3 <= MaxEffects
    /\ select' = [selectModel(select, model) EXCEPT
                      !.via = "click", !.model = model]
    /\ UNCHANGED <<sliderVars, sensor, icon>>

\* A keydown on the item of model.
handleKeydown(key, model) ==
    /\ Len(select.log) + 3 <= MaxEffects
    /\ select' =
           [ (IF key = "Enter" \/ key = " "
              THEN selectModel(select, model)
              ELSE IF key = "Escape"
                   THEN [select EXCEPT !.log = Append(@, CloseMenu),
                                       !.isOpen = FALSE]
                   ELSE select)
             EXCEPT !.via = key, !.model = model ]
    /\ UNCHANGED <<sliderVars, sensor, icon>>

\* The dropdown opens or closes the menu through v-model="isOpen".
toggleMenu ==
    /\ select' = [select EXCEPT !.isOpen = ~@, !.via = "trigger",
                                !.model = ""]
    /\ UNCHANGED <<sliderVars, sensor, icon>>

InitSelect ==
    /\ SliderParked
    /\ sensor = SensorSetup
    /\ icon = IconSetup(DefaultSize, FALSE)
    /\ \E mv \in ModelIds \cup {""} : select = SelectSetup(mv)

NextSelect ==
    \/ \E model \in ModelIds : clickItem(model)
    \/ \E key \in Keys, model \in ModelIds : handleKeydown(key, model)
    \/ toggleMenu

SpecSelect == InitSelect /\ [][NextSelect]_vars

----------------------------------------------------------------------------
(* Properties *)

\* The Range invariant of the data model: min <= max and step > 0.
ValidRange == props.min <= props.max /\ props.step > 0

\* C1 - Range containment: for a valid Range and every real raw position,
\* snappedValue (after the final rounding) lies in [min, max].
C1_RangeContainment ==
    (ValidRange /\ IsNum(rawSliderValue)) =>
        /\ IsNum(snappedValue)
        /\ props.min <= snappedValue.val
        /\ snappedValue.val <= props.max

\* C2 - Step alignment: for a valid Range and every real raw position,
\* snappedValue - min is an integer multiple of step.
C2_StepAlignment ==
    (ValidRange /\ IsNum(rawSliderValue)) =>
        /\ IsNum(snappedValue)
        /\ (snappedValue.val - props.min) % props.step = 0

\* C3 - Idempotence: for a valid Range and every real raw position, taking
\* snappedValue as the raw position yields snappedValue again.
C3_Idempotence ==
    (ValidRange /\ IsNum(rawSliderValue)) =>
        snappedValueOf(props.min, props.max, props.step, snappedValue)
            = snappedValue

\* The step in which the owner's echo of the value just emitted reaches the
\* watcher of props.modelValue.
EchoStep ==
    /\ lastOp.name = "watchSnappedValue"
    /\ lastOp.emitted
    /\ lastOp'.name = "watchModelValue"

\* C4 - No feedback loop: when the owner echoes the emitted value back, the
\* raw position is not changed, no job is left pending and nothing more is
\* emitted; no input or owner event causes more than one emission.
C4_NoFeedbackLoop ==
    [][ /\ emitCount' <= 1
        /\ EchoStep =>
              /\ rawSliderValue' = rawSliderValue
              /\ queue' = {}
              /\ lastEmitted' = lastEmitted
              /\ emitCount' = emitCount ]_vars

\* An echo has been delivered while the raw position sits off the emitted
\* step value, and the component is quiescent.
C4_Witness ==
    /\ ValidRange
    /\ IsNum(rawSliderValue)
    /\ lastOp.name = "watchModelValue"
    /\ lastOp.arg = lastEmitted
    /\ emitCount = 1
    /\ props.modelValue = lastEmitted
    /\ rawSliderValue # lastEmitted
    /\ queue = {}

\* C5 - Emission exactly on change: once an update is complete, the derived
\* value is the last value notified; a component constructed with a value
\* that its derived value differs from has notified the derived value.
C5_EmissionExactlyOnChange ==
    Idle =>
        IF lastEmitted = NoEmit
        THEN lastOp.name = "setup" =>
                 snappedValue = Nullish(props.modelValue, Num(props.min))
        ELSE snappedValue = lastEmitted

\* C6 - setFromUpstream: when the owner's value changes to w (min if w is
\* absent), the raw position becomes w if w differs from snappedValue and
\* is left unchanged if w equals snappedValue.
C6_SetFromUpstream ==
    [][ lastOp'.name = "watchModelValue" =>
            LET w == Nullish(ownerValue, Num(props.min))
            IN  IF StrictEq(w, snappedValue)
                THEN rawSliderValue' = rawSliderValue
                ELSE rawSliderValue' = w ]_vars

\* C7 - Default initial value: constructed without a value, the raw
\* position is min.
C7_DefaultInitialValue ==
    (lastOp.name = "setup" /\ lastOp.arg \in {Undefined, Null}) =>
        rawSliderValue = Num(props.min)

\* C8 - Non-finite input is rejected: an input event of either control
\* whose value is not a finite number leaves the raw position as it was and
\* queues nothing.
C8_NonFiniteRejected ==
    [][ ( /\ lastOp'.name \in {"onRangeInput", "onNumberInput"}
          /\ ~NumberIsFinite(ToNumber(lastOp'.arg)) ) =>
              /\ rawSliderValue' = rawSliderValue
              /\ queue' = queue ]_vars

\* C9 - Degenerate step fallback: with step <= 0, snappedValue is the value
\* obtained with step = 1.
C9_DegenerateStepFallback ==
    (props.step <= 0 /\ IsNum(rawSliderValue)) =>
        snappedValue =
            snappedValueOf(props.min, props.max, D(1, 0), rawSliderValue)

\* C10 - Zero-width range: with min = max and step > 0, snappedValue is min
\* and sliderValPercent is 0, for every real raw position.
C10_ZeroWidthRange ==
    (props.min = props.max /\ props.step > 0 /\ IsNum(rawSliderValue)) =>
        /\ snappedValue = Num(props.min)
        /\ sliderValPercent.num = 0

\* The position after the clamp of line 57.
clampedRawOf(min, max, rawValue) ==
    MathMin(Num(max), MathMax(Num(min), Nullish(rawValue, Num(min))))

StepOverSpan ==
    /\ props.max > props.min
    /\ props.step > props.max - props.min

\* The values snappedValue takes over the offered positions, min and max.
ReturnSet ==
    { snappedValueOf(props.min, props.max, props.step, Num(x)) :
          x \in Positions \cup {props.min, props.max} }

\* The largest min + k*step (k >= 0) that is <= max, for step > 0.
LargestStepPoint ==
    props.min + ((props.max - props.min) \div props.step) * props.step

AlignedRange ==
    /\ ValidRange
    /\ props.min % props.step = 0
    /\ props.max % props.step = 0

Abs(n) == IF n < 0 THEN -n ELSE n

\* C12 - quantize follows the five steps: the listed examples give the
\* listed results, and in a Range with step-aligned min and max the result
\* is a step point in the range that no other step point is nearer to the
\* clamped position than.
C12_NearestStepPoint ==
    LET r == Range(props.min, props.max, props.step)
        c == clampedRawOf(props.min, props.max, rawSliderValue)
    IN  /\ (r = Range(0, D(10, 0), D(1, 0)) /\ rawSliderValue = Num(D(36, 1)))
               => snappedValue = Num(D(4, 0))
        /\ (r = Range(0, D(10, 0), D(1, 0)) /\ rawSliderValue = Num(D(-5, 0)))
               => snappedValue = Num(0)
        /\ (r = Range(0, D(10, 0), D(1, 0)) /\ rawSliderValue = Num(D(100, 0)))
               => snappedValue = Num(D(10, 0))
        /\ (r = Range(0, D(1, 0), D(25, 2)) /\ rawSliderValue = Num(D(9, 1)))
               => snappedValue = Num(D(1, 0))
        /\ (r = Range(0, D(1, 0), D(25, 2)) /\ rawSliderValue = Num(D(1, 1)))
               => snappedValue = Num(0)
        /\ (r = Range(0, D(1, 0), D(25, 2)) /\ rawSliderValue = Num(D(4, 1)))
               => snappedValue = Num(D(5, 1))
        /\ (AlignedRange /\ rawSliderValue.kind # "NaN") =>
               /\ IsNum(snappedValue)
               /\ props.min <= snappedValue.val
               /\ snappedValue.val <= props.max
               /\ (snappedValue.val - props.min) % props.step = 0
               /\ \A k \in 0..((props.max - props.min) \div props.step) :
                      Abs(snappedValue.val - c.val)
                          <= Abs(props.min + k * props.step - c.val)

\* The range control has reported 0.4 in Range{0, 1, 0.25} and the value
\* shown is 0.5.
C12_Witness ==
    /\ Range(props.min, props.max, props.step) = Range(0, D(1, 0), D(25, 2))
    /\ lastOp.name = "onRangeInput"
    /\ rawSliderValue = Num(D(4, 1))
    /\ snappedValue = Num(D(5, 1))

\* a <= b for the fractions sliderValPercentOf returns (den > 0).
PercentLeq(a, b) ==
    IF a.den = b.den THEN a.num <= b.num
    ELSE a.num * b.den <= b.num * a.den

\* C13 - sliderValPercent: for min < max and every position x it lies in
\* [0, 100], is 0 for x <= min and 100 for x >= max, and is not larger than
\* the value for any position above x.
C13_PercentBoundsMonotone ==
    (props.min < props.max /\ rawSliderValue.kind # "NaN") =>
        LET here == sliderValPercent
            zero == [kind |-> "number", num |-> 0, den |-> 1]
            full == [kind |-> "number", num |-> 100, den |-> 1]
        IN  /\ here.kind = "number"
            /\ PercentLeq(zero, here)
            /\ PercentLeq(here, full)
            /\ ~Less(Num(props.min), rawSliderValue) => here.num = 0
            /\ ~Less(rawSliderValue, Num(props.max))
                   => here.num = 100 * here.den
            /\ \A y \in Positions :
                   ~Less(Num(y), rawSliderValue) =>
                       PercentLeq(here, sliderValPercentOf(props.min,
                                                           props.max, Num(y)))

\* After an input the thumb is strictly inside the range and off the step
\* grid: the fraction is that of the raw position, not that of snappedValue.
C13_Witness ==
    /\ props.min < props.max
    /\ lastOp.name = "onRangeInput"
    /\ IsNum(rawSliderValue)
    /\ props.min < rawSliderValue.val
    /\ rawSliderValue.val < props.max
    /\ rawSliderValue # snappedValue
    /\ sliderValPercent #
           sliderValPercentOf(props.min, props.max, snappedValue)

\* The number of decimal digits of the fixed-point value n.
DecimalsOf(n) ==
    CHOOSE d \in 0..MaxDecimals :
        /\ (n * 10 ^ d) % Scale = 0
        /\ \A e \in 0..(d - 1) : (n * 10 ^ e) % Scale # 0

C15_AgreementAtQuiescence ==
    (Idle /\ IsNum(ownerValue)) => ownerValue = snappedValue

\* The step in which the owner's echo of an older emission reaches the
\* watcher of props.modelValue while a newer emission is still on its way.
LateEchoStep ==
    /\ lastOp.name = "OwnerDeliver"
    /\ lastOp'.name = "watchModelValue"
    /\ inflight # <<>>
    /\ inflight[Len(inflight)] = lastEmitted
    /\ lastOp.arg # lastEmitted

\* C16 - A late echo does not undo newer input: when the echo of v1 is
\* delivered after v2 was emitted, the raw position stays and no emission
\* is queued.
C16_LateEchoKeepsNewerInput ==
    [][ LateEchoStep =>
            /\ rawSliderValue' = rawSliderValue
            /\ "snapped" \notin queue' ]_vars

\* The EventSources that are connecting or open.
LiveSources == { i \in 1..Len(sensor.made) : sensor.made[i] # "CLOSED" }

\* C17 - Sensor toggle: after any sequence of clicks at most one
\* EventSource is live (a click while one is live closes it).
C17_AtMostOneConnection == Cardinality(LiveSources) <= 1

\* C18 - ThinkingIcon animation loop: at most one animation-frame callback
\* is pending; once the watcher has run with active = false, or the
\* component is unmounted, none is pending and rafId is null; after
\* deactivation dashOffset is 0; dashOffset stays within [0, 120).
C18_SingleAnimationLoop ==
    /\ Cardinality(icon.frames) <= 1
    /\ (~icon.activeOld \/ ~icon.mounted) =>
           (icon.frames = {} /\ icon.rafId = 0)
    /\ ~icon.activeOld => icon.dashOffset = 0
    /\ 0 <= icon.dashOffset
    /\ icon.dashOffset < DashPeriod * Scale

\* The ring has been animated past a wrap of dashOffset and a callback is
\* pending.
C18_WitnessActive ==
    /\ icon.activeOld
    /\ icon.mounted
    /\ icon.last = "frame"
    /\ icon.dashOffset > 0
    /\ icon.dashOffset < icon.speed * MaxDt
    /\ Cardinality(icon.frames) = 1

\* The watcher has just run with active = false on a mounted icon.
C18_Witness ==
    /\ icon.last = "deactivated"
    /\ icon.mounted
    /\ icon.frames = {}
    /\ icon.dashOffset = 0

\* C19 - ModelSelect selection protocol: a click, Enter or Space on an item
\* emits update:modelValue with its id, then change with the id in
\* target.value and srcElement.value, then sets isOpen to false; Escape only
\* sets isOpen to false; any other key emits nothing and leaves isOpen.
C19_SelectionProtocol ==
    [][ /\ select'.via \in {"click", "Enter", " "} =>
              /\ select'.log = select.log \o
                     << EmitUpdate(select'.model),
                        EmitChange(select'.model, select'.model),
                        CloseMenu >>
              /\ ~select'.isOpen
        /\ select'.via = "Escape" =>
              /\ select'.log = Append(select.log, CloseMenu)
              /\ ~select'.isOpen
        /\ select'.via \in Keys \ {"Enter", " ", "Escape"} =>
              /\ select'.log = select.log
              /\ select'.isOpen = select.isOpen ]_vars

\* A model has been chosen with the space key from the open menu after
\* Escape had closed it once.
C19_Witness ==
    /\ select.via = " "
    /\ ~select.isOpen
    /\ select.modelValue = select.model
    /\ Len(select.log) = 4
    /\ select.log = << CloseMenu,
                       EmitUpdate(select.model),
                       EmitChange(select.model, select.model),
                       CloseMenu >>

====
